---- MODULE Spec2Model ----
(***************************************************************************)
(* The CSE pass of projects/p2/C++/p2.cpp as a state machine.              *)
(*                                                                         *)
(* The state is the IR module being rewritten (one function: its blocks,   *)
(* each an ordered list of instruction ids, and the instructions' fields), *)
(* the six CSE statistics, the global inc_flag, and the position of the    *)
(* driver and of the scan it is in (pc, bb, i, k, kids).  One action is    *)
(* one pass through a loop body of the source.                             *)
(*                                                                         *)
(* Scope of the inputs: one function per module; every value has type i32; *)
(* control flow is straight-line (ret, unconditional br), with or without  *)
(* a block that is unreachable from the entry.                             *)
(***************************************************************************)
EXTENDS Integers, Sequences, FiniteSets, TLC

VARIABLES
    inst,       \* id -> instruction record (opcode, type, operands, volatile, successors)
    blocks,     \* the function: sequence of blocks, each a sequence of live ids
    erasedBy,   \* id -> whether freed, and by which rule, for which current
                \* instruction and with how many uses left (history)
    counters,   \* the llvm::Statistic counters CSEDead .. CSEStElim
    inc_flag,   \* global bool inc_flag
    pc,         \* where the pass is: driver, a scan, done, abort
    bb,         \* the driver's block iterator
    i,          \* the driver's instruction iterator (End: bb->end())
    k,          \* the running scan's iterator (i / p / k / m in the source)
    kids,       \* domBBScan: dominator-tree children still to scan
    staleRead,  \* the last step read a field of an instruction it had erased
    input,      \* the module as it was read (history)
    run,        \* which run of the pass this is
    firstTotal  \* the counter sum when the first run ended

vars == <<inst, blocks, erasedBy, counters, inc_flag, pc, bb, i, k, kids,
          staleRead, input, run, firstTotal>>

\* Longest instruction sequence (terminators aside) of an enumerated input.
MaxLen == 3

End == 0

Ptrs == {1, 2}

CounterNames ==
    {"CSEDead", "CSEElim", "CSESimplify", "CSELdElim", "CSEStore2Load", "CSEStElim"}

(***************************************************************************)
(* Values: constants, the function's integer argument, its pointer         *)
(* arguments, and instruction results.                                     *)
(***************************************************************************)
Const(n) == [kind |-> "const", n |-> n]
Arg(n) == [kind |-> "arg", n |-> n]
Ptr(n) == [kind |-> "ptr", n |-> n]
Ref(id) == [kind |-> "inst", n |-> id]
Null == [kind |-> "null", n |-> 0]

Range(s) == {s[x] : x \in DOMAIN s}

Max(S) == CHOOSE x \in S : \A y \in S : y <= x

\* Instruction constructors.
MkAdd(x, y) ==
    [op |-> "Add", ty |-> "i32", ops |-> <<x, y>>, vol |-> FALSE, succ |-> <<>>]
MkLoad(p, v) ==
    [op |-> "Load", ty |-> "i32", ops |-> <<Ptr(p)>>, vol |-> v, succ |-> <<>>]
MkStore(x, p, v) ==
    [op |-> "Store", ty |-> "void", ops |-> <<x, Ptr(p)>>, vol |-> v, succ |-> <<>>]
MkCall(x) ==
    [op |-> "Call", ty |-> "i32", ops |-> <<x>>, vol |-> FALSE, succ |-> <<>>]
MkRet(x) ==
    [op |-> "Ret", ty |-> "void", ops |-> <<x>>, vol |-> FALSE, succ |-> <<>>]
MkBr(b) ==
    [op |-> "Br", ty |-> "void", ops |-> <<>>, vol |-> FALSE, succ |-> <<b>>]

(***************************************************************************)
(* The inputs.  A body is a sequence of templates; an operand written r1   *)
(* (r2) is the most recent (second most recent) earlier instruction that   *)
(* yields a value.                                                         *)
(***************************************************************************)
Templates ==
    {"addA1", "addAA", "add11", "addRR", "loadP", "loadQ", "vloadP",
     "storeP", "storeQ", "vstoreP", "call"}

YieldsValue(t) == t \notin {"storeP", "storeQ", "vstoreP"}

Recent(tpl, j) == {x \in 1..(j - 1) : YieldsValue(tpl[x])}

R1(tpl, j) == IF Recent(tpl, j) = {} THEN 0 ELSE Max(Recent(tpl, j))

R2(tpl, j) ==
    IF Recent(tpl, j) \ {R1(tpl, j)} = {} THEN R1(tpl, j)
    ELSE Max(Recent(tpl, j) \ {R1(tpl, j)})

LastOr(tpl, j, dflt) == IF R1(tpl, j) = 0 THEN dflt ELSE Ref(R1(tpl, j))

MkInst(tpl, j) ==
    CASE tpl[j] = "addA1" -> MkAdd(Arg(0), Const(1))
      [] tpl[j] = "addAA" -> MkAdd(Arg(0), Arg(0))
      [] tpl[j] = "add11" -> MkAdd(Const(1), Const(1))
      [] tpl[j] = "addRR" -> MkAdd(Ref(R1(tpl, j)), Ref(R2(tpl, j)))
      [] tpl[j] = "loadP" -> MkLoad(1, FALSE)
      [] tpl[j] = "loadQ" -> MkLoad(2, FALSE)
      [] tpl[j] = "vloadP" -> MkLoad(1, TRUE)
      [] tpl[j] = "storeP" -> MkStore(LastOr(tpl, j, Const(1)), 1, FALSE)
      [] tpl[j] = "storeQ" -> MkStore(LastOr(tpl, j, Const(1)), 2, FALSE)
      [] tpl[j] = "vstoreP" -> MkStore(LastOr(tpl, j, Const(1)), 1, TRUE)
      [] tpl[j] = "call" -> MkCall(LastOr(tpl, j, Arg(0)))

WellFormed(tpl) == \A j \in DOMAIN tpl : tpl[j] = "addRR" => R1(tpl, j) # 0

Bodies(n) == {tpl \in [1..n -> Templates] : WellFormed(tpl)}

\* Store to P, load of P, a pure instruction, load of P: scenario 5 of the
\* specification with the store's flag and the pure instruction varied.
Scenario5Bodies ==
    {<<s, "loadP", a, "loadP">> :
        s \in {"storeP", "vstoreP"}, a \in {"addA1", "addAA", "addRR"}}

Shapes == {"single", "dom", "unreachable"}

RetOperand(tpl, upto, useLast) ==
    IF useLast THEN LastOr(tpl, upto + 1, Arg(0)) ELSE Arg(0)

\* The module built from a body: ids 1..n are the body in order, n+1 and
\* n+2 the terminators.  "single": one block.  "dom": the entry block
\* branches to a second block holding the last split instructions.
\* "unreachable": as "dom", but the entry block returns.
BuildInst(tpl, shape, split, useLast) ==
    LET n == Len(tpl)
        cut == n - split
    IN [id \in 1..(IF shape = "single" THEN n + 1 ELSE n + 2) |->
          IF id <= n THEN MkInst(tpl, id)
          ELSE IF id = n + 1
               THEN CASE shape = "single" -> MkRet(RetOperand(tpl, n, useLast))
                      [] shape = "dom" -> MkBr(2)
                      [] shape = "unreachable" -> MkRet(RetOperand(tpl, cut, useLast))
               ELSE MkRet(RetOperand(tpl, n, useLast))]

BuildBlocks(tpl, shape, split) ==
    LET n == Len(tpl)
        cut == n - split
    IN IF shape = "single"
       THEN << [x \in 1..(n + 1) |-> x] >>
       ELSE << [x \in 1..(cut + 1) |-> IF x <= cut THEN x ELSE n + 1],
               [x \in 1..(split + 1) |-> IF x <= split THEN cut + x ELSE n + 2] >>

\* erasedBy of a live instruction.
NotErased == [rule |-> "", by |-> 0, uses |-> 0]

ZeroCounters == [c \in CounterNames |-> 0]

Begin(B, b) == IF B[b] = <<>> THEN End ELSE B[b][1]

InitWith(tpl, shape, split, useLast) ==
    /\ inst = BuildInst(tpl, shape, split, useLast)
    /\ blocks = BuildBlocks(tpl, shape, split)
    /\ input = [inst |-> inst, blocks |-> blocks]
    /\ erasedBy = [id \in DOMAIN inst |-> NotErased]
    /\ counters = ZeroCounters
    /\ inc_flag = FALSE
    /\ pc = "driver"
    /\ bb = 1
    /\ i = Begin(blocks, 1)
    /\ k = End
    /\ kids = << >>
    /\ staleRead = FALSE
    /\ run = 1
    /\ firstTotal = 0

\* The enumerated inputs: every one-block body of up to MaxLen instructions,
\* every two-block body of one instruction less with one or two of them in
\* the second block, and the bodies of scenario 5.
Init ==
    \/ \E n \in 0..MaxLen : \E tpl \in Bodies(n) : \E useLast \in BOOLEAN :
          InitWith(tpl, "single", 0, useLast)
    \/ \E n \in 1..(MaxLen - 1) : \E tpl \in Bodies(n) : \E useLast \in BOOLEAN :
          \E shape \in Shapes \ {"single"} : \E split \in 1..2 :
              split <= n /\ InitWith(tpl, shape, split, useLast)
    \/ \E tpl \in Scenario5Bodies : \E useLast \in BOOLEAN :
          InitWith(tpl, "single", 0, useLast)

(***************************************************************************)
(* The IR operations the pass uses.                                        *)
(***************************************************************************)
Live == UNION {Range(blocks[b]) : b \in DOMAIN blocks}

\* Instruction::getParent
Parent(id) == CHOOSE b \in DOMAIN blocks : id \in Range(blocks[b])

IndexIn(s, id) == CHOOSE x \in DOMAIN s : s[x] = id

\* iterator++ in the function B: the next instruction of the same block, or
\* its end.
NextIn(B, id) ==
    IF \A b \in DOMAIN B : id \notin Range(B[b]) THEN End
    ELSE LET s == B[CHOOSE b \in DOMAIN B : id \in Range(B[b])]
             x == IndexIn(s, id)
         IN IF x = Len(s) THEN End ELSE s[x + 1]

NextOf(id) == NextIn(blocks, id)

\* The use list of an instruction: the operand slots of live instructions
\* that name it.
Uses(I, id) ==
    {<<u, x>> \in Live \X {1, 2} : x \in DOMAIN I[u].ops /\ I[u].ops[x] = Ref(id)}

\* The erase without the replaceAllUsesWith before it.
RAUW_Forgotten(I, old, new) == I

\* Value::replaceAllUsesWith
RAUW(I, old, new) ==
    [u \in DOMAIN I |->
        [I[u] EXCEPT !.ops = [x \in DOMAIN @ |-> IF @[x] = Ref(old) THEN new ELSE @[x]]]]

\* Instruction::eraseFromParent : unlink from the block.
Unlink(B, id) ==
    [b \in DOMAIN B |-> SelectSeq(B[b], LAMBDA x : x # id)]

\* What erasing id under rule, for the current instruction by, leaves behind
\* in the history: I is the instruction table at the erase.
Freed(I, id, rule, by) ==
    [erasedBy EXCEPT ![id] =
        [rule |-> rule, by |-> by, uses |-> Cardinality(Uses(I, id))]]

\* The scans for identical instructions erase without counting.
Bump_NotInScans(rule) ==
    IF rule = "CSEElim" THEN counters ELSE [counters EXCEPT ![rule] = @ + 1]

\* Statistic++
Bump(rule) == [counters EXCEPT ![rule] = @ + 1]

\* Value::getType
TypeOf(v) ==
    CASE v.kind = "inst" -> inst[v.n].ty
      [] v.kind = "ptr" -> "ptr"
      [] OTHER -> "i32"

\* Instruction::isTerminator
isTerminator(id) == inst[id].op \in {"Ret", "Br"}

\* Instruction::mayHaveSideEffects : writes memory, may throw or may not
\* return; a volatile load counts as a write.
mayHaveSideEffects(id) ==
    \/ inst[id].op \in {"Store", "Call"}
    \/ inst[id].op = "Load" /\ inst[id].vol

\* Instruction::isIdenticalTo
isIdenticalTo(x, y) ==
    /\ inst[x].op = inst[y].op
    /\ inst[x].ty = inst[y].ty
    /\ inst[x].ops = inst[y].ops
    /\ inst[x].vol = inst[y].vol
    /\ inst[x].succ = inst[y].succ

\* llvm::SimplifyInstruction : folds an add of two constants; no result for
\* any other instruction of the inputs.
SimplifyInstruction(id) ==
    IF /\ inst[id].op = "Add"
       /\ inst[id].ops[1].kind = "const"
       /\ inst[id].ops[2].kind = "const"
    THEN Const(inst[id].ops[1].n + inst[id].ops[2].n)
    ELSE Null

DeadOpcodes ==
    {"Add", "FNeg", "FAdd", "Sub", "FSub", "Mul", "FMul", "UDiv", "SDiv", "FDiv",
     "URem", "SRem", "FRem", "Shl", "LShr", "AShr", "And", "Or", "Xor",
     "GetElementPtr", "Trunc", "ZExt", "SExt", "FPToUI", "FPToSI", "UIToFP",
     "SIToFP", "FPTrunc", "FPExt", "PtrToInt", "IntToPtr", "BitCast",
     "AddrSpaceCast", "ICmp", "FCmp", "PHI", "Select", "ExtractElement",
     "InsertElement", "ShuffleVector", "ExtractValue", "InsertValue"}

\* I.use_begin() == I.use_end()
UseEmpty(id) ==
    \A u \in Live : \A x \in DOMAIN inst[u].ops : inst[u].ops[x] # Ref(id)

isDead(id) == UseEmpty(id) /\ inst[id].op \in DeadOpcodes

isValidForCSE(id) ==
    ~ (\/ inst[id].op \in {"Load", "Store", "FCmp", "Alloca", "VAArg", "Call"}
       \/ isTerminator(id))

(***************************************************************************)
(* The dominator tree of the function (DominatorTreeBase::recalculate).    *)
(***************************************************************************)
Succs(b) == IF blocks[b] = <<>> THEN {} ELSE Range(inst[blocks[b][Len(blocks[b])]].succ)

RECURSIVE ReachFrom(_, _)
ReachFrom(S, avoid) ==
    LET more == (S \cup UNION {Succs(b) : b \in S}) \ avoid
    IN IF more = S THEN S ELSE ReachFrom(more, avoid)

Reachable == ReachFrom({1}, {})

\* d dominates b: b is reachable, and not without passing d.
Dominates(d, b) == b \in Reachable /\ (d = b \/ b \notin ReachFrom({1} \ {d}, {d}))

StrictDoms(b) == {d \in Reachable : d # b /\ Dominates(d, b)}

\* d immediately dominates b.
IDom(d, b) == d \in StrictDoms(b) /\ \A e \in StrictDoms(b) : Dominates(e, d)

\* DT->getNode(BB) : no node for a block unreachable from the entry.
HasNode(b) == b \in Reachable

RECURSIVE SetToSeq(_)
SetToSeq(S) ==
    IF S = {} THEN << >>
    ELSE LET m == CHOOSE x \in S : \A y \in S : x <= y
         IN <<m>> \o SetToSeq(S \ {m})

\* Node->begin() .. Node->end()
Children(b) == SetToSeq({c \in DOMAIN blocks : IDom(b, c)})

(***************************************************************************)
(* CommonSubexpressionElimination: the driver.                             *)
(***************************************************************************)
Total ==
    counters["CSEDead"] + counters["CSEElim"] + counters["CSESimplify"]
    + counters["CSELdElim"] + counters["CSEStore2Load"] + counters["CSEStElim"]

AtInstruction == pc = "driver" /\ i # End

\* Neither of the two rewrites of the current instruction applies.
NoRewrite == ~ isDead(i) /\ SimplifyInstruction(i) = Null

\* if (isDead(*ExtractedI)) { i++; erase; CSEDead++; continue; }
DriverR1 ==
    /\ AtInstruction
    /\ isDead(i)
    /\ i' = NextOf(i)
    /\ blocks' = Unlink(blocks, i)
    /\ erasedBy' = Freed(inst, i, "CSEDead", i)
    /\ counters' = Bump("CSEDead")
    /\ staleRead' = FALSE
    /\ UNCHANGED <<inst, inc_flag, pc, bb, k, kids, input, run, firstTotal>>

\* if (simplyInstr) { i++; RAUW; erase; CSESimplify++; continue; }
DriverR2 ==
    /\ AtInstruction
    /\ ~ isDead(i)
    /\ SimplifyInstruction(i) # Null
    /\ i' = NextOf(i)
    /\ inst' = RAUW(inst, i, SimplifyInstruction(i))
    /\ blocks' = Unlink(blocks, i)
    /\ erasedBy' = Freed(inst', i, "CSESimplify", i)
    /\ counters' = Bump("CSESimplify")
    /\ staleRead' = FALSE
    /\ UNCHANGED <<inc_flag, pc, bb, k, kids, input, run, firstTotal>>

\* if (isValidForCSE(*ExtractedI)) sameBBScan(i): enter the scan.
DriverCSE ==
    /\ AtInstruction
    /\ NoRewrite
    /\ isValidForCSE(i)
    /\ pc' = "sameBB"
    /\ k' = NextOf(i)
    /\ staleRead' = FALSE
    /\ UNCHANGED <<inst, blocks, erasedBy, counters, inc_flag, bb, i, kids, input,
                   run, firstTotal>>

\* if (opcode == Load) eliminateLoad(i): enter the scan.
DriverLoad ==
    /\ AtInstruction
    /\ NoRewrite
    /\ ~ isValidForCSE(i)
    /\ inst[i].op = "Load"
    /\ pc' = "elimLoad"
    /\ k' = NextOf(i)
    /\ staleRead' = FALSE
    /\ UNCHANGED <<inst, blocks, erasedBy, counters, inc_flag, bb, i, kids, input,
                   run, firstTotal>>

\* if (opcode == Store) eliminateStore(i): enter the scan.
DriverStore ==
    /\ AtInstruction
    /\ NoRewrite
    /\ ~ isValidForCSE(i)
    /\ inst[i].op = "Store"
    /\ pc' = "elimStore"
    /\ inc_flag' = FALSE
    /\ k' = NextOf(i)
    /\ staleRead' = FALSE
    /\ UNCHANGED <<inst, blocks, erasedBy, counters, bb, i, kids, input, run,
                   firstTotal>>

\* No rule applies (a call, a terminator): i++.
DriverAdvance ==
    /\ AtInstruction
    /\ NoRewrite
    /\ ~ isValidForCSE(i)
    /\ inst[i].op \notin {"Load", "Store"}
    /\ i' = NextOf(i)
    /\ staleRead' = FALSE
    /\ UNCHANGED <<inst, blocks, erasedBy, counters, inc_flag, pc, bb, k, kids,
                   input, run, firstTotal>>

\* i == bb->end(): bb++.
DriverNextBlock ==
    /\ pc = "driver"
    /\ i = End
    /\ bb < Len(blocks)
    /\ bb' = bb + 1
    /\ i' = Begin(blocks, bb + 1)
    /\ staleRead' = FALSE
    /\ UNCHANGED <<inst, blocks, erasedBy, counters, inc_flag, pc, k, kids, input,
                   run, firstTotal>>

\* The last block is done: the pass returns.
DriverDone ==
    /\ pc = "driver"
    /\ i = End
    /\ bb = Len(blocks)
    /\ pc' = "done"
    /\ staleRead' = FALSE
    /\ UNCHANGED <<inst, blocks, erasedBy, counters, inc_flag, bb, i, k, kids, input,
                   run, firstTotal>>

(***************************************************************************)
(* sameBBScan and domBBScan.                                               *)
(***************************************************************************)
\* One iteration of either scan's loop on nextI == k, for the current
\* instruction i.
ScanIdentical ==
    /\ k' = NextOf(k)
    /\ IF isIdenticalTo(k, i)
       THEN /\ inst' = RAUW(inst, k, Ref(i))
            /\ blocks' = Unlink(blocks, k)
            /\ erasedBy' = Freed(inst', k, "CSEElim", i)
            /\ counters' = Bump("CSEElim")
       ELSE UNCHANGED <<inst, blocks, erasedBy, counters>>
    /\ staleRead' = FALSE

SameBBStep ==
    /\ pc = "sameBB"
    /\ k # End
    /\ ScanIdentical
    /\ UNCHANGED <<inc_flag, pc, bb, i, kids, input, run, firstTotal>>

\* sameBBScan returns; domBBScan finds the block's node and starts on its
\* first child.
DomBBEnter ==
    /\ pc = "sameBB"
    /\ k = End
    /\ HasNode(bb)
    /\ pc' = "domBB"
    /\ kids' = Children(bb)
    /\ k' = IF kids' = << >> THEN End ELSE Begin(blocks, Head(kids'))
    /\ staleRead' = FALSE
    /\ UNCHANGED <<inst, blocks, erasedBy, counters, inc_flag, bb, i, input, run,
                   firstTotal>>

\* getNode returns nullptr for an unreachable block and Node->begin()
\* dereferences it.
DomBBNullNode ==
    /\ pc = "sameBB"
    /\ k = End
    /\ ~ HasNode(bb)
    /\ pc' = "abort"
    /\ staleRead' = FALSE
    /\ UNCHANGED <<inst, blocks, erasedBy, counters, inc_flag, bb, i, k, kids, input,
                   run, firstTotal>>

DomBBStep ==
    /\ pc = "domBB"
    /\ kids # << >>
    /\ k # End
    /\ ScanIdentical
    /\ UNCHANGED <<inc_flag, pc, bb, i, kids, input, run, firstTotal>>

\* p == bb_next->end(): it++.
DomBBNextChild ==
    /\ pc = "domBB"
    /\ kids # << >>
    /\ k = End
    /\ kids' = Tail(kids)
    /\ k' = IF kids' = << >> THEN End ELSE Begin(blocks, Head(kids'))
    /\ staleRead' = FALSE
    /\ UNCHANGED <<inst, blocks, erasedBy, counters, inc_flag, pc, bb, i, input, run,
                   firstTotal>>

\* domBBScan returns; the current instruction is no load and no store: i++.
DomBBDone ==
    /\ pc = "domBB"
    /\ kids = << >>
    /\ pc' = "driver"
    /\ i' = NextOf(i)
    /\ staleRead' = FALSE
    /\ UNCHANGED <<inst, blocks, erasedBy, counters, inc_flag, bb, k, kids, input,
                   run, firstTotal>>

(***************************************************************************)
(* eliminateLoad.                                                          *)
(***************************************************************************)
\* The isVolatile test left out.
LoadIsRedundant_VolatileToo(nextInst, currentLoad) ==
    /\ inst[nextInst].op = "Load"
    /\ inst[nextInst].ops[1] = inst[currentLoad].ops[1]
    /\ inst[nextInst].ty = inst[currentLoad].ty

\* The comparison of the two addresses left out.
LoadIsRedundant_AnyAddress(nextInst, currentLoad) ==
    /\ inst[nextInst].op = "Load"
    /\ ~ inst[nextInst].vol
    /\ inst[nextInst].ty = inst[currentLoad].ty

\* nextInst is a non-volatile load of currentLoad's address and type.
LoadIsRedundant(nextInst, currentLoad) ==
    /\ inst[nextInst].op = "Load"
    /\ ~ inst[nextInst].vol
    /\ inst[nextInst].ops[1] = inst[currentLoad].ops[1]
    /\ inst[nextInst].ty = inst[currentLoad].ty

\* One iteration of the loop on nextInst == k.  The test for a store that
\* ends the iteration reads nextInst's opcode after the erase: for an erased
\* nextInst the read is of freed storage and either branch may be taken.
ElimLoadStep ==
    /\ pc = "elimLoad"
    /\ k # End
    /\ k' = NextOf(k)
    /\ IF LoadIsRedundant(k, i)
       THEN /\ inst' = RAUW(inst, k, Ref(i))
            /\ blocks' = Unlink(blocks, k)
            /\ erasedBy' = Freed(inst', k, "CSELdElim", i)
            /\ counters' = Bump("CSELdElim")
       ELSE UNCHANGED <<inst, blocks, erasedBy, counters>>
    /\ staleRead' = (erasedBy'[k].rule # "")
    /\ \E isStore \in BOOLEAN :
          /\ ~ staleRead' => isStore = (inst[k].op = "Store")
          /\ IF isStore
             THEN pc' = "driver" /\ i' = NextIn(blocks', i)
             ELSE UNCHANGED <<pc, i>>
    /\ UNCHANGED <<inc_flag, bb, kids, input, run, firstTotal>>

\* k == bb->end(): eliminateLoad returns; a load is no store: i++.
ElimLoadDone ==
    /\ pc = "elimLoad"
    /\ k = End
    /\ pc' = "driver"
    /\ i' = NextOf(i)
    /\ staleRead' = FALSE
    /\ UNCHANGED <<inst, blocks, erasedBy, counters, inc_flag, bb, k, kids, input,
                   run, firstTotal>>

(***************************************************************************)
(* eliminateStore.                                                         *)
(***************************************************************************)
\* nextInstruction is a non-volatile load of the address currentStore
\* writes, of the type of the value it writes.
StoreForwards(nextInstruction, currentStore) ==
    /\ inst[nextInstruction].op = "Load"
    /\ ~ inst[nextInstruction].vol
    /\ inst[nextInstruction].ops[1] = inst[currentStore].ops[2]
    /\ inst[nextInstruction].ty = TypeOf(inst[currentStore].ops[1])

\* nextInstruction is a store to the same address of a value of the same
\* type, and currentStore is not volatile.
StoreIsDead(nextInstruction, currentStore) ==
    /\ inst[nextInstruction].op = "Store"
    /\ inst[nextInstruction].ops[2] = inst[currentStore].ops[2]
    /\ ~ inst[currentStore].vol
    /\ TypeOf(inst[nextInstruction].ops[1]) = TypeOf(inst[currentStore].ops[1])

\* The scan stops at every instruction that is not forwarded.
StoreScanBreaks_AtArithmetic(nextInstruction) ==
    \/ inst[nextInstruction].op \in {"Load", "Store", "Call", "Add"}
    \/ mayHaveSideEffects(nextInstruction)

\* The scan stops at nextInstruction.
StoreScanBreaks(nextInstruction) ==
    \/ inst[nextInstruction].op \in {"Load", "Store", "Call"}
    \/ mayHaveSideEffects(nextInstruction)

\* The it++ before the erase left out.
KillCursor_Stays(it) == it

\* it++ : where the driver's iterator goes when the current store is erased.
KillCursor(it) == NextOf(it)

\* A forwarded load: m++; RAUW with the stored value; erase;
\* CSEStore2Load++; continue.
ElimStoreForward ==
    /\ pc = "elimStore"
    /\ k # End
    /\ StoreForwards(k, i)
    /\ k' = NextOf(k)
    /\ inst' = RAUW(inst, k, inst[i].ops[1])
    /\ blocks' = Unlink(blocks, k)
    /\ erasedBy' = Freed(inst', k, "CSEStore2Load", i)
    /\ counters' = Bump("CSEStore2Load")
    /\ staleRead' = FALSE
    /\ UNCHANGED <<inc_flag, pc, bb, i, kids, input, run, firstTotal>>

\* The current store is dead: m++; it++; inc_flag = true; erase it;
\* CSEStElim++; break.  The driver sees inc_flag and does not advance.
ElimStoreKill ==
    /\ pc = "elimStore"
    /\ k # End
    /\ ~ StoreForwards(k, i)
    /\ StoreIsDead(k, i)
    /\ k' = NextOf(k)
    /\ i' = KillCursor(i)
    /\ inc_flag' = TRUE
    /\ blocks' = Unlink(blocks, i)
    /\ erasedBy' = Freed(inst, i, "CSEStElim", i)
    /\ counters' = Bump("CSEStElim")
    /\ pc' = "driver"
    /\ staleRead' = FALSE
    /\ UNCHANGED <<inst, bb, kids, input, run, firstTotal>>

\* A load, store, call or side effect ends the scan: break.  The driver
\* sees inc_flag false: i++.
ElimStoreBreak ==
    /\ pc = "elimStore"
    /\ k # End
    /\ ~ StoreForwards(k, i)
    /\ ~ StoreIsDead(k, i)
    /\ StoreScanBreaks(k)
    /\ pc' = "driver"
    /\ i' = NextOf(i)
    /\ staleRead' = FALSE
    /\ UNCHANGED <<inst, blocks, erasedBy, counters, inc_flag, bb, k, kids, input,
                   run, firstTotal>>

\* Any other instruction: m++.
ElimStoreSkip ==
    /\ pc = "elimStore"
    /\ k # End
    /\ ~ StoreForwards(k, i)
    /\ ~ StoreIsDead(k, i)
    /\ ~ StoreScanBreaks(k)
    /\ k' = NextOf(k)
    /\ staleRead' = FALSE
    /\ UNCHANGED <<inst, blocks, erasedBy, counters, inc_flag, pc, bb, i, kids,
                   input, run, firstTotal>>

\* m == bb->end(): eliminateStore returns with inc_flag false: i++.
ElimStoreDone ==
    /\ pc = "elimStore"
    /\ k = End
    /\ pc' = "driver"
    /\ i' = NextOf(i)
    /\ staleRead' = FALSE
    /\ UNCHANGED <<inst, blocks, erasedBy, counters, inc_flag, bb, k, kids, input,
                   run, firstTotal>>

(***************************************************************************)
(* The specifications.                                                     *)
(***************************************************************************)
Next ==
    \/ DriverR1
    \/ DriverR2
    \/ DriverCSE
    \/ DriverLoad
    \/ DriverStore
    \/ DriverAdvance
    \/ DriverNextBlock
    \/ DriverDone
    \/ SameBBStep
    \/ DomBBEnter
    \/ DomBBNullNode
    \/ DomBBStep
    \/ DomBBNextChild
    \/ DomBBDone
    \/ ElimLoadStep
    \/ ElimLoadDone
    \/ ElimStoreForward
    \/ ElimStoreKill
    \/ ElimStoreBreak
    \/ ElimStoreSkip
    \/ ElimStoreDone

Spec == Init /\ [][Next]_vars

\* The pass is run again on the module the first run left.
Rerun ==
    /\ pc = "done"
    /\ run = 1
    /\ run' = 2
    /\ firstTotal' = Total
    /\ pc' = "driver"
    /\ bb' = 1
    /\ i' = Begin(blocks, 1)
    /\ staleRead' = FALSE
    /\ UNCHANGED <<inst, blocks, erasedBy, counters, inc_flag, k, kids, input>>

NextTwice == Next \/ Rerun

SpecTwice == Init /\ [][NextTwice]_vars

(***************************************************************************)
(* Execution of a module, for the comparison of input and output: the      *)
(* function is run from its entry block on an environment env (the value   *)
(* of the argument, the initial memory, the locations every call writes).  *)
(* What is observed is the sequence of calls (argument and memory at the   *)
(* call), of volatile accesses, and the return (value and final memory).   *)
(***************************************************************************)
Envs == [a : {0, 1}, mem : [Ptrs -> {0, 1}], writes : SUBSET Ptrs]

\* A call returns 5 and writes 7 to each location of env.writes: values
\* that no constant of an input and no initial memory cell holds.
Eval(v, regs, env) ==
    CASE v.kind = "const" -> v.n
      [] v.kind = "arg" -> env.a
      [] v.kind = "ptr" -> v.n
      [] v.kind = "inst" -> regs[v.n]

Event(e, p, v, m) == [e |-> e, p |-> p, v |-> v, m |-> m]

RECURSIVE Exec(_, _, _, _, _, _)
Exec(I, B, env, b, x, st) ==
    LET id == B[b][x]
        ins == I[id]
        val(n) == Eval(ins.ops[n], st.regs, env)
    IN CASE ins.op = "Add" ->
              Exec(I, B, env, b, x + 1,
                   [st EXCEPT !.regs[id] = val(1) + val(2)])
         [] ins.op = "Load" ->
              Exec(I, B, env, b, x + 1,
                   [st EXCEPT !.regs[id] = st.mem[val(1)],
                              !.tr = IF ins.vol
                                     THEN Append(@, Event("vload", val(1), 0, st.mem))
                                     ELSE @])
         [] ins.op = "Store" ->
              LET m2 == [st.mem EXCEPT ![val(2)] = val(1)]
              IN Exec(I, B, env, b, x + 1,
                      [st EXCEPT !.mem = m2,
                                 !.tr = IF ins.vol
                                        THEN Append(@, Event("vstore", val(2), val(1), m2))
                                        ELSE @])
         [] ins.op = "Call" ->
              Exec(I, B, env, b, x + 1,
                   [st EXCEPT !.regs[id] = 5,
                              !.mem = [p \in Ptrs |->
                                         IF p \in env.writes THEN 7 ELSE @[p]],
                              !.tr = Append(@, Event("call", 0, val(1), st.mem))])
         [] ins.op = "Br" -> Exec(I, B, env, ins.succ[1], 1, st)
         [] ins.op = "Ret" -> Append(st.tr, Event("ret", 0, val(1), st.mem))

Observe(I, B, env) ==
    Exec(I, B, env, 1, 1,
         [regs |-> [id \in DOMAIN I |-> 0], mem |-> env.mem, tr |-> << >>])

(***************************************************************************)
(* The claims.                                                             *)
(***************************************************************************)
Erased(id) == erasedBy[id].rule # ""

ErasedSet == {id \in DOMAIN erasedBy : Erased(id)}

ErasedUnder(rule) == {id \in DOMAIN erasedBy : erasedBy[id].rule = rule}

RECURSIVE InstrCount(_)
InstrCount(B) == IF B = << >> THEN 0 ELSE Len(Head(B)) + InstrCount(Tail(B))

IsMemOp(I, id) == I[id].op \in {"Load", "Store"}

\* C1: when the pass has returned, the module computes for every
\* environment (argument, initial memory, what the calls write) the same
\* observable results as the module that was read.
C1_SemanticPreservation ==
    pc = "done" =>
        \A env \in Envs :
            Observe(inst, blocks, env) = Observe(input.inst, input.blocks, env)

\* The input of scenario 7: two volatile loads of one address and a return.
IsScenario7 ==
    /\ Len(input.blocks) = 1
    /\ Len(input.blocks[1]) = 3
    /\ \A x \in 1..2 :
          LET ins == input.inst[input.blocks[1][x]]
          IN ins.op = "Load" /\ ins.vol /\ ins.ops = input.inst[input.blocks[1][1]].ops

\* C2: in every state, every volatile load and every volatile store of the
\* input is still in its block; and on two volatile loads of one address no
\* counter is incremented.
C2_VolatileKept ==
    /\ \A b \in DOMAIN input.blocks : \A id \in Range(input.blocks[b]) :
          (IsMemOp(input.inst, id) /\ input.inst[id].vol) => id \in Range(blocks[b])
    /\ IsScenario7 => Total = 0

\* The pass has returned on an input that holds scenario 7, and on an input
\* where a volatile store is followed by a store to the same address.
C2_Witness ==
    /\ pc = "done"
    /\ \/ IsScenario7
       \/ /\ Len(input.blocks[1]) = 3
          /\ input.inst[1].op = "Store" /\ input.inst[1].vol
          /\ input.inst[2].op = "Store" /\ input.inst[2].ops[2] = input.inst[1].ops[2]
          /\ 1 \in Live

\* C3 as stated: no load is erased by the redundant-load rule, and
\* CSELdElim is not incremented, while the current instruction is a
\* volatile load.
C3_OnlyForNonVolatileCurrent ==
    \A id \in ErasedUnder("CSELdElim") : ~ inst[erasedBy[id].by].vol

\* C3 as amended: the redundant-load rule runs for every current load,
\* volatile or not; each instruction it erases is a non-volatile load of
\* the current load's address and type, the current load stays, and
\* CSELdElim counts these erases.
C3_ForEveryCurrentLoad ==
    /\ \A id \in ErasedUnder("CSELdElim") :
          LET cur == erasedBy[id].by
          IN /\ inst[cur].op = "Load"
             /\ cur \in Live
             /\ inst[id].op = "Load"
             /\ ~ inst[id].vol
             /\ inst[id].ops[1] = inst[cur].ops[1]
             /\ inst[id].ty = inst[cur].ty
    /\ counters["CSELdElim"] = Cardinality(ErasedUnder("CSELdElim"))

\* A load has been erased as redundant with a volatile current load.
C3_Witness ==
    \E id \in ErasedUnder("CSELdElim") : inst[erasedBy[id].by].vol

\* The input of scenario 5: one block that is a store of V to P, a
\* non-volatile load of P of V's type, an add, a second such load, a return.
IsScenario5 ==
    /\ Len(input.blocks) = 1
    /\ input.blocks[1] = <<1, 2, 3, 4, 5>>
    /\ input.inst[1].op = "Store"
    /\ input.inst[3].op = "Add"
    /\ \A l \in {2, 4} :
          /\ input.inst[l].op = "Load"
          /\ ~ input.inst[l].vol
          /\ input.inst[l].ops[1] = input.inst[1].ops[2]
          /\ input.inst[l].ty = "i32"

\* C4 as stated: on scenario 5 the pass forwards the first load from the
\* store (CSEStore2Load incremented once) and removes the second as
\* redundant with the first (CSELdElim incremented once).
C4_ForwardThenRedundant ==
    (pc = "done" /\ IsScenario5) =>
        counters["CSEStore2Load"] = 1 /\ counters["CSELdElim"] = 1

\* C4 as amended: on scenario 5 the pass forwards both loads from the store
\* (CSEStore2Load incremented twice) and removes no load as redundant
\* (CSELdElim not incremented).
C4_BothForwarded ==
    (pc = "done" /\ IsScenario5) =>
        /\ counters["CSEStore2Load"] = 2
        /\ counters["CSELdElim"] = 0
        /\ \A l \in {2, 4} :
              erasedBy[l].rule = "CSEStore2Load" /\ erasedBy[l].by = 1

C4_Witness == pc = "done" /\ IsScenario5 /\ counters["CSEStore2Load"] = 2

\* C5: in every state the sum of the six counters is the number of
\* instructions erased, each counter is the number erased under its rule,
\* and when the pass has returned the sum is the input's instruction count
\* less the output's.
C5_CounterConsistency ==
    /\ Total = Cardinality(ErasedSet)
    /\ \A c \in CounterNames : counters[c] = Cardinality(ErasedUnder(c))
    /\ pc = "done" => Total = InstrCount(input.blocks) - InstrCount(blocks)

\* The pass has returned after a simplification (which introduced a
\* constant) and an erase under another rule.
C5_Witness ==
    /\ pc = "done"
    /\ counters["CSESimplify"] >= 1
    /\ Total >= 2

\* C6: when the second run has returned, it has incremented the counters
\* by no more than the first run did.
C6_Monotone ==
    (run = 2 /\ pc = "done") => Total - firstTotal <= firstTotal

\* C7: every erased instruction had an empty use list at its erase, and no
\* live instruction has an erased instruction as an operand.
C7_UseListIntegrity ==
    /\ \A id \in ErasedSet : erasedBy[id].uses = 0
    /\ \A u \in Live : \A x \in DOMAIN inst[u].ops :
          inst[u].ops[x].kind = "inst" => inst[u].ops[x].n \in Live

\* An instruction that had a user in the input has been erased, and its
\* user is live.
C7_Witness ==
    \E id \in ErasedSet : \E u \in Live : \E x \in DOMAIN input.inst[u].ops :
        input.inst[u].ops[x] = Ref(id)

\* C8: the pass never aborts.
C8_RunsToCompletion == pc # "abort"

\* The driver's iterator is at a live instruction of the block being
\* visited, or at its end.
CursorValid == i = End \/ i \in Range(blocks[bb])

\* A step that erases the instruction under the driver's iterator has moved
\* the iterator to its successor first; when it is not the driver's own
\* erase it is the dead-store case, with inc_flag set.  eliminateStore
\* returns with inc_flag set exactly when it erased the current store.
CursorDiscipline ==
    /\ (i # End /\ ~ Erased(i) /\ erasedBy'[i].rule # "") =>
          /\ i' = NextOf(i)
          /\ pc # "driver" => (erasedBy'[i].rule = "CSEStElim" /\ inc_flag')
    /\ (pc = "elimStore" /\ pc' = "driver") => (inc_flag' <=> erasedBy'[i].rule # "")

\* C9: the driver's iterator is valid in every state, and every step
\* keeps the discipline above.
C9_IteratorValidity == [] CursorValid /\ [][CursorDiscipline]_vars

\* The driver is back at an instruction after the dead-store case erased
\* the store under its iterator.
C9_Witness == pc = "driver" /\ inc_flag /\ i # End /\ ErasedUnder("CSEStElim") # {}

\* C10: no step reads a field of an instruction after erasing it.
C10_NoReadAfterErase == ~ staleRead

====
